---- MODULE Spec2Model ----
(***************************************************************************)
(* RCMP (Reliable Calvin Message Protocol): a sender process (sender.py)   *)
(* and a receiver process (receiver.py) that move one file over UDP.       *)
(*                                                                         *)
(* The two processes are modelled step by step, one action per method of   *)
(* the Sender and Receiver classes.  The two UDP directions are the        *)
(* sequences dataQ (sender -> receiver) and ackQ (receiver -> sender).     *)
(*                                                                         *)
(* File contents are symbolic: a chunk read from the file is the pair      *)
(* (off, len), "the len file bytes starting at byte offset off", and what  *)
(* the receiver writes is a sequence of such pieces, each followed by pad  *)
(* filler bytes (the zero padding struct.pack adds to a short payload).    *)
(* The output is byte-identical to the input exactly when its pieces tile  *)
(* the offsets 0 .. file_size-1 in order without filler.                   *)
(***************************************************************************)
EXTENDS Integers, Sequences, FiniteSets, TLC

\* ------------------------------------------------------------- constants
PACKET_SIZE == 2048
\* struct.calcsize("!3I?2048s") and struct.calcsize("!2I")
DATA_PACKET_LEN == 2061
ACK_PACKET_LEN == 8
\* sender.py: packet_loss_recovery raises on the 5th consecutive timeout
TIMEOUT_LIMIT == 5
\* receiver.py: send_ack sends when random.randint(1, 10) <= 8
ACK_SEND_MAX == 8
RANDOM_MAX == 10

\* ---------------------------------------------------------------- bounds
\* files have at most MaxChunks chunks
MaxChunks == 3

\* lengths of the last, partial chunk that are tried (0: none)
Tails == {0, 1, 904}
FileSizes == {n * PACKET_SIZE + t : n \in 0..(MaxChunks - 1), t \in Tails}
                 \cup {MaxChunks * PACKET_SIZE}
\* random.randint(1, 15); the id is copied around and never compared, so
\* the two ends of the range stand for it
ConnIds == {1, 15}

Min(a, b) == IF a < b THEN a ELSE b
Max(a, b) == IF a > b THEN a ELSE b
RemoveAt(q, i) == SubSeq(q, 1, i - 1) \o SubSeq(q, i + 1, Len(q))

VARIABLES
    file_size,  \* os.path.getsize(filename): the input file on disk
    sender,     \* the Sender object and its position in Sender.start
    rec,        \* the Receiver object and its position in Receiver.start
    dataQ,      \* datagrams travelling to the receiver's port
    ackQ        \* datagrams travelling to the sender's port

vars == <<file_size, sender, rec, dataQ, ackQ>>

\* ----------------------------------------------------------- the transport
\* dataQ and ackQ hold the datagrams that can still arrive, in the order they
\* were sent.  A delivery either takes the datagram out (it arrives once) or
\* leaves it (the network may deliver it again: duplication); a datagram that
\* is never delivered is lost.  Closing a socket discards what was addressed
\* to it.
InFlight(q) == {q[i] : i \in DOMAIN q}

\* sendto: a datagram for a closed port is dropped.  A datagram equal to one
\* that can still arrive adds nothing a duplicate of that one does not, so
\* the queue holds it once.
Transmit(q, m, peer_open) ==
    IF peer_open /\ m \notin InFlight(q) THEN Append(q, m) ELSE q

AfterDelivery(q, i, keep) == IF keep THEN q ELSE RemoveAt(q, i)

SenderTerminal == {"done", "aborted", "crashed"}
ReceiverTerminal == {"done", "idle_timeout", "crashed"}

\* ------------------------------------------------------------------ Sender
\* Sender.__init__ and the head of Sender.start
SenderInit(cid, size) ==
    [ connection_id |-> cid,
      file_size |-> size,
      packet_index |-> 0,
      is_acked |-> FALSE,
      ack_gap |-> 0,
      last_acked_packet_num |-> 0,
      timeout_counter |-> 0,
      data |-> [off |-> 0, len |-> 0],
      pos |-> 0,                  \* the read cursor of self.file
      socket_open |-> TRUE,
      file_open |-> TRUE,
      pc |-> "read_packet" ]

\* a slip: the file is opened without the with block and never closed
SenderExitFileLeft(s, how) ==
    [s EXCEPT !.pc = how, !.socket_open = FALSE]

\* leaving the main loop: the with block closes the file, finally the socket
SenderExit(s, how) ==
    [s EXCEPT !.pc = how, !.socket_open = FALSE, !.file_open = FALSE]

\* self.file.read(PACKET_SIZE) at cursor pos of a file of size bytes
ReadLen(pos, size) == IF pos < size THEN Min(PACKET_SIZE, size - pos) ELSE 0

read_packet ==
    /\ sender.pc = "read_packet"
    /\ LET n == ReadLen(sender.pos, file_size)
           s1 == [sender EXCEPT !.data = [off |-> sender.pos, len |-> n],
                                !.pos = sender.pos + n]
       IN  IF n = 0
           THEN \* NoData: break
                /\ sender' = SenderExit(s1, "done")
                /\ ackQ' = <<>>
           ELSE /\ sender' = [s1 EXCEPT !.pc = "set_is_acked"]
                /\ ackQ' = ackQ
    /\ UNCHANGED <<file_size, rec, dataQ>>

\* a slip: counts the packet about to be sent as already sent
AckDecisionOffByOne(packet_index, last_acked_packet_num, ack_gap) ==
    packet_index + 1 - last_acked_packet_num = ack_gap

AckDecision(packet_index, last_acked_packet_num, ack_gap) ==
    packet_index - last_acked_packet_num = ack_gap

set_is_acked ==
    /\ sender.pc = "set_is_acked"
    /\ sender' = [sender EXCEPT
                    !.is_acked = AckDecision(sender.packet_index,
                                             sender.last_acked_packet_num,
                                             sender.ack_gap),
                    !.pc = "send_packet"]
    /\ UNCHANGED <<file_size, rec, dataQ, ackQ>>

\* struct.pack("!3I?2048s", ...): the payload is data padded to 2048 bytes
build_packet(s) ==
    [ len |-> DATA_PACKET_LEN,
      connection_id |-> s.connection_id,
      file_size |-> s.file_size,
      packet_num |-> s.packet_index,
      is_acked |-> s.is_acked,
      payload |-> s.data ]

send_packet ==
    /\ sender.pc = "send_packet"
    /\ dataQ' = Transmit(dataQ, build_packet(sender), rec.socket_open)
    /\ sender' = [sender EXCEPT
                    !.packet_index = sender.packet_index + 1,
                    !.pc = IF sender.is_acked THEN "await_ack"
                                              ELSE "read_packet"]
    /\ UNCHANGED <<file_size, rec, ackQ>>

\* a slip: the gap doubles instead of growing by one
AckGapDoubling(ack_gap) == IF ack_gap = 0 THEN 1 ELSE 2 * ack_gap

\* send_packet when sendto raises: the error is printed, packet_index stays
send_packet_fails ==
    /\ sender.pc = "send_packet"
    /\ sender' = [sender EXCEPT
                    !.pc = IF sender.is_acked THEN "await_ack"
                                              ELSE "read_packet"]
    /\ UNCHANGED <<file_size, rec, dataQ, ackQ>>

\* a slip: the gap is not counted up
AckGapNotCounted(ack_gap) == ack_gap

AckGapAfterAck(ack_gap) == ack_gap + 1

\* a hardening that is not in the code: an older number is ignored
LastAckedMonotone(last_acked_packet_num, ack_packet_num) ==
    Max(last_acked_packet_num, ack_packet_num)

\* self.last_acked_packet_num = ack_packet_num
LastAckedAfterAck(last_acked_packet_num, ack_packet_num) == ack_packet_num

\* await_ack, a datagram arrives: the i-th one travelling
await_ack(i, keep) ==
    /\ sender.pc = "await_ack"
    /\ i \in DOMAIN ackQ
    /\ LET raw_ack == ackQ[i]
       IN  IF raw_ack.len # ACK_PACKET_LEN
           THEN \* struct.error is caught nowhere
                /\ sender' = SenderExit(sender, "crashed")
                /\ ackQ' = <<>>
           ELSE /\ sender' = [sender EXCEPT
                        !.ack_gap = AckGapAfterAck(sender.ack_gap),
                        !.timeout_counter = 0,
                        !.last_acked_packet_num =
                            LastAckedAfterAck(sender.last_acked_packet_num,
                                              raw_ack.packet_num),
                        !.pc = "read_packet"]
                /\ ackQ' = AfterDelivery(ackQ, i, keep)
    /\ UNCHANGED <<file_size, rec, dataQ>>

\* a slip: the comparison is made before the increment is counted
RecoveryAbortsLate(timeout_counter) == timeout_counter > TIMEOUT_LIMIT

RecoveryAborts(timeout_counter) == timeout_counter = TIMEOUT_LIMIT

\* a slip: the timeout is not counted
TimeoutNotCounted(timeout_counter) == timeout_counter

\* self.timeout_counter += 1
TimeoutCounted(timeout_counter) == timeout_counter + 1

\* a slip the comments suggest ("the one after the last ack'd packet")
RewindToNext(last_acked_packet_num) == last_acked_packet_num + 1

\* the packet number sending resumes from after a timeout
RewindTo(last_acked_packet_num) == last_acked_packet_num

\* await_ack, socket timeout: packet_loss_recovery
packet_loss_recovery ==
    /\ sender.pc = "await_ack"
    /\ LET s1 == [sender EXCEPT
                    !.timeout_counter = TimeoutCounted(sender.timeout_counter)]
       IN  IF RecoveryAborts(s1.timeout_counter)
           THEN \* ReceiverNotResponding: break
                /\ sender' = SenderExit(s1, "aborted")
                /\ ackQ' = <<>>
           ELSE /\ sender' = [s1 EXCEPT
                        !.ack_gap = 0,
                        !.packet_index = RewindTo(s1.last_acked_packet_num),
                        !.pos = RewindTo(s1.last_acked_packet_num) * PACKET_SIZE,
                        !.pc = "read_packet"]
                /\ ackQ' = ackQ
    /\ UNCHANGED <<file_size, rec, dataQ>>

\* ---------------------------------------------------------------- Receiver
\* Receiver.__init__ and the head of Receiver.start; the attributes that
\* receive_packet sets do not exist before the first packet
ReceiverInit ==
    [ next_packet_expected |-> 0,
      connection_id |-> 0,
      expected_file_size |-> 0,
      packet_num |-> 0,
      is_acked |-> FALSE,
      payload |-> [off |-> 0, len |-> 0],
      written |-> <<>>,           \* what self.file.write has appended
      armed |-> FALSE,            \* settimeout(10) has been called
      socket_open |-> TRUE,
      file_open |-> TRUE,
      pc |-> "receive_packet" ]

\* leaving the main loop: the with block closes the file, finally the socket
ReceiverExit(r, how) ==
    [r EXCEPT !.pc = how, !.socket_open = FALSE, !.file_open = FALSE]

\* recvfrom + struct.unpack of the i-th datagram travelling
receive_packet(i, keep) ==
    /\ rec.pc = "receive_packet"
    /\ i \in DOMAIN dataQ
    /\ LET raw_data == dataQ[i]
           r1 == [rec EXCEPT !.armed = TRUE]
       IN  IF raw_data.len < DATA_PACKET_LEN
           THEN \* struct.error is caught nowhere
                /\ rec' = ReceiverExit(r1, "crashed")
                /\ dataQ' = <<>>
           ELSE \* recvfrom(PACKET_SIZE + 13) cuts a longer datagram
                /\ rec' = [r1 EXCEPT
                        !.connection_id = raw_data.connection_id,
                        !.expected_file_size = raw_data.file_size,
                        !.packet_num = raw_data.packet_num,
                        !.is_acked = raw_data.is_acked,
                        !.payload = raw_data.payload,
                        !.pc = "classify"]
                /\ dataQ' = AfterDelivery(dataQ, i, keep)
    /\ UNCHANGED <<file_size, sender, ackQ>>

\* a slip: the first test is off by one, so the packet just written is
\* taken as new when it comes again
ClassifyRepeatedAsNew(packet_num, next_packet_expected) ==
    IF packet_num < next_packet_expected - 1 THEN "duplicate"
    ELSE IF packet_num <= next_packet_expected THEN "in_order"
    ELSE "future"

\* a slip: >= in the second test, so a packet from the future is written
ClassifyFutureAsNew(packet_num, next_packet_expected) ==
    IF packet_num < next_packet_expected THEN "duplicate"
    ELSE IF packet_num >= next_packet_expected THEN "in_order"
    ELSE "future"

\* a slip: <= in the first test, the expected packet is taken for a repeat
ClassifyNewAsRepeated(packet_num, next_packet_expected) ==
    IF packet_num <= next_packet_expected THEN "duplicate"
    ELSE "future"

Classify(packet_num, next_packet_expected) ==
    IF packet_num < next_packet_expected THEN "duplicate"
    ELSE IF packet_num = next_packet_expected THEN "in_order"
    ELSE "future"

IsFinal(packet_num, expected_file_size) ==
    (PACKET_SIZE * (packet_num + 1)) > expected_file_size

\* a slip: the sign flip is forgotten
RemainingDataSizeUnflipped(packet_num, expected_file_size) ==
    (PACKET_SIZE * packet_num) - expected_file_size

RemainingDataSize(packet_num, expected_file_size) ==
    -1 * ((PACKET_SIZE * packet_num) - expected_file_size)

\* a slip: the payload is written unsliced, filler included
SliceLenWhole(k) == PACKET_SIZE

\* len(payload[0:k]) for the 2048-byte payload (Python slice semantics)
SliceLen(k) ==
    IF k >= 0 THEN Min(k, PACKET_SIZE) ELSE Max(PACKET_SIZE + k, 0)

\* the first k bytes of the payload of packet seq: file bytes, then filler
Piece(seq, payload, k) ==
    [ seq |-> seq,
      off |-> payload.off,
      n |-> Min(k, payload.len),
      pad |-> k - Min(k, payload.len) ]

\* write_packet: the bytes it writes
WrittenBy(r) ==
    IF IsFinal(r.packet_num, r.expected_file_size)
    THEN Piece(r.packet_num, r.payload,
               SliceLen(RemainingDataSize(r.packet_num, r.expected_file_size)))
    ELSE Piece(r.packet_num, r.payload, PACKET_SIZE)

\* the body of the main loop after receive_packet
classify ==
    /\ rec.pc = "classify"
    /\ LET class == Classify(rec.packet_num, rec.next_packet_expected)
           after == IF rec.is_acked THEN "send_ack" ELSE "receive_packet"
       IN  IF class = "in_order"
           THEN LET r1 == [rec EXCEPT
                             !.next_packet_expected = rec.next_packet_expected + 1,
                             !.written = Append(rec.written, WrittenBy(rec))]
                IN  IF IsFinal(rec.packet_num, rec.expected_file_size)
                    THEN \* write_packet raises EndOfData: break
                         /\ rec' = ReceiverExit(r1, "done")
                         /\ dataQ' = <<>>
                    ELSE /\ rec' = [r1 EXCEPT !.pc = after]
                         /\ dataQ' = dataQ
           ELSE /\ rec' = [rec EXCEPT !.pc = after]
                /\ dataQ' = dataQ
    /\ UNCHANGED <<file_size, sender, ackQ>>

\* struct.pack("!2I", connection_id, packet_num)
ack_packet(r) ==
    [ len |-> ACK_PACKET_LEN,
      connection_id |-> r.connection_id,
      packet_num |-> r.packet_num ]

AckPasses(draw) == draw <= ACK_SEND_MAX

\* send_ack, with draw the value of random.randint(1, 10)
send_ack(draw) ==
    /\ rec.pc = "send_ack"
    /\ draw \in 1..RANDOM_MAX
    /\ ackQ' = IF AckPasses(draw)
               THEN Transmit(ackQ, ack_packet(rec), sender.socket_open)
               ELSE ackQ
    /\ rec' = [rec EXCEPT !.pc = "receive_packet"]
    /\ UNCHANGED <<file_size, sender, dataQ>>

\* recvfrom raises socket.timeout: only once settimeout(10) has been called
idle_timeout ==
    /\ rec.pc = "receive_packet"
    /\ rec.armed
    /\ rec' = ReceiverExit(rec, "idle_timeout")
    /\ dataQ' = <<>>
    /\ UNCHANGED <<file_size, sender, ackQ>>

\* a data packet is lost on the way
lose_data(i) ==
    /\ i \in DOMAIN dataQ
    /\ dataQ' = RemoveAt(dataQ, i)
    /\ UNCHANGED <<file_size, sender, rec, ackQ>>

\* ---------------------------------------------------------- specifications
Init ==
    /\ file_size \in FileSizes
    /\ \E cid \in ConnIds : sender = SenderInit(cid, file_size)
    /\ rec = ReceiverInit
    /\ dataQ = <<>>
    /\ ackQ = <<>>

\* Any channel: a datagram that was sent arrives any number of times (none:
\* loss; several: duplication), in any order and after any delay; every
\* outcome of the receiver's random draw; timeouts at any moment.
Next ==
    \/ read_packet
    \/ set_is_acked
    \/ send_packet
    \/ \E i \in DOMAIN ackQ : await_ack(i, TRUE)
    \/ packet_loss_recovery
    \/ \E i \in DOMAIN dataQ : receive_packet(i, TRUE)
    \/ classify
    \/ \E draw \in 1..RANDOM_MAX : send_ack(draw)
    \/ idle_timeout

Spec == Init /\ [][Next]_vars

\* The fault-free channel: every datagram is delivered once, in order; the
\* random draw never withholds an acknowledgment; a timeout fires only when
\* nothing more can arrive.
NothingForSender ==
    /\ ackQ = <<>>
    /\ \/ ~rec.socket_open
       \/ dataQ = <<>> /\ rec.pc = "receive_packet"

NothingForReceiver ==
    /\ dataQ = <<>>
    /\ sender.pc \in SenderTerminal

NextFaultFree ==
    \/ read_packet
    \/ set_is_acked
    \/ send_packet
    \/ await_ack(1, FALSE)
    \/ NothingForSender /\ packet_loss_recovery
    \/ receive_packet(1, FALSE)
    \/ classify
    \/ \E draw \in 1..ACK_SEND_MAX : send_ack(draw)
    \/ NothingForReceiver /\ idle_timeout

SpecFaultFree == Init /\ [][NextFaultFree]_vars

\* The fault-free channel, except that data packets may be lost.
NextDataLoss ==
    \/ NextFaultFree
    \/ \E i \in DOMAIN dataQ : lose_data(i)

SpecDataLoss == Init /\ [][NextDataLoss]_vars

\* The fault-free channel, except that datagrams of a wrong length arrive
\* from somewhere.
BadDataLens == {ACK_PACKET_LEN, DATA_PACKET_LEN - 1}
BadAckLens == {ACK_PACKET_LEN - 1, DATA_PACKET_LEN}

inject_data(len) ==
    /\ dataQ' = Transmit(dataQ, [len |-> len], rec.socket_open)
    /\ UNCHANGED <<file_size, sender, rec, ackQ>>

inject_ack(len) ==
    /\ ackQ' = Transmit(ackQ, [len |-> len], sender.socket_open)
    /\ UNCHANGED <<file_size, sender, rec, dataQ>>

NextInjected ==
    \/ NextFaultFree
    \/ \E len \in BadDataLens : inject_data(len)
    \/ \E len \in BadAckLens : inject_ack(len)

SpecInjected == Init /\ [][NextInjected]_vars

\* The fault-free channel, except that well-formed acknowledgments arrive
\* from somewhere: any connection id, any packet number, one at a time.
AckConnIds == ConnIds \cup {7}

foreign_ack(cid, n) ==
    /\ sender.socket_open
    /\ ackQ = <<>>
    /\ ackQ' = <<[len |-> ACK_PACKET_LEN, connection_id |-> cid, packet_num |-> n]>>
    /\ UNCHANGED <<file_size, sender, rec, dataQ>>

NextForeignAck ==
    \/ NextFaultFree
    \/ \E cid \in AckConnIds, n \in 0..MaxChunks : foreign_ack(cid, n)

SpecForeignAck == Init /\ [][NextForeignAck]_vars

\* The fault-free channel, except that sendto may fail locally and that an
\* acknowledgment may be delivered a second time.
NextSendFailure ==
    \/ NextFaultFree
    \/ send_packet_fails
    \/ await_ack(1, TRUE)

SpecSendFailure == Init /\ [][NextSendFailure]_vars

\* The receiver alone, handed the packets 0, 1, 2, ... of a transfer of
\* file_size bytes in order, each once, with either value of the flag.
ChunkAt(n, size) == [off |-> n * PACKET_SIZE, len |-> ReadLen(n * PACKET_SIZE, size)]

feed_packet(flag) ==
    /\ rec.socket_open
    /\ dataQ = <<>>
    /\ rec.pc = "receive_packet"
    /\ rec.next_packet_expected <= MaxChunks
    /\ dataQ' = <<build_packet([sender EXCEPT
                     !.packet_index = rec.next_packet_expected,
                     !.is_acked = flag,
                     !.data = ChunkAt(rec.next_packet_expected, file_size)])>>
    /\ UNCHANGED <<file_size, sender, rec, ackQ>>

NextInOrder ==
    \/ \E flag \in BOOLEAN : feed_packet(flag)
    \/ receive_packet(1, FALSE)
    \/ classify
    \/ \E draw \in 1..RANDOM_MAX : send_ack(draw)

SpecInOrder == Init /\ [][NextInOrder]_vars

\* ------------------------------------------------------------------ claims
RECURSIVE BytesWritten(_)
BytesWritten(w) ==
    IF w = <<>> THEN 0
    ELSE w[1].n + w[1].pad + BytesWritten(Tail(w))

\* the output file holds exactly the size bytes of the input file
ByteIdentical(w, size) ==
    /\ BytesWritten(w) = size
    /\ \A i \in DOMAIN w :
         /\ w[i].pad = 0
         /\ w[i].off = BytesWritten(SubSeq(w, 1, i - 1))

\* the two ways out of await_ack, told apart by timeout_counter
AckReceived ==
    /\ sender.pc = "await_ack"
    /\ sender'.pc = "read_packet"
    /\ sender'.timeout_counter = 0
AckTimedOut ==
    /\ sender.pc = "await_ack"
    /\ sender'.timeout_counter = sender.timeout_counter + 1

\* C1: once both sessions have ended and the sender did not give up after
\* 5 consecutive timeouts, the output is byte-identical to the input file
\* and file_size bytes long.
C1_EndToEnd ==
    ( /\ sender.pc \in SenderTerminal
      /\ rec.pc \in ReceiverTerminal
      /\ sender.pc # "aborted" )
    => ByteIdentical(rec.written, file_size)

\* C2: on the fault-free channel, for a file of at least one byte, the
\* sender ends only by file exhaustion and the receiver only by writing a
\* final packet.
C2_HappyPath ==
    file_size >= 1 =>
        /\ sender.pc \in SenderTerminal => sender.pc = "done"
        /\ rec.pc \in ReceiverTerminal => rec.pc = "done"

\* C3: no sequence number is written twice, and handling a packet whose
\* number is below next_packet_expected writes nothing and leaves
\* next_packet_expected as it is.
C3_IdempotentWrite ==
    [][ /\ \A i, j \in DOMAIN rec'.written :
             i # j => rec'.written[i].seq # rec'.written[j].seq
        /\ ( rec.pc = "classify" /\ rec.packet_num < rec.next_packet_expected )
             => /\ rec'.written = rec.written
                /\ rec'.next_packet_expected = rec.next_packet_expected
      ]_vars

\* a packet below next_packet_expected that is not the one just written has
\* been handled
C3_Witness ==
    /\ rec.pc \in {"send_ack", "receive_packet"}
    /\ rec.armed
    /\ rec.packet_num + 1 < rec.next_packet_expected

\* C4: handling a packet whose number is above next_packet_expected writes
\* nothing and leaves next_packet_expected as it is; next_packet_expected
\* changes only by +1, and only in handling a packet whose number equals it;
\* whatever is written is the packet whose number equals it.
C4_FutureDiscarded ==
    [][ /\ ( rec.pc = "classify" /\ rec.packet_num > rec.next_packet_expected )
             => /\ rec'.written = rec.written
                /\ rec'.next_packet_expected = rec.next_packet_expected
        /\ rec'.next_packet_expected # rec.next_packet_expected
             => /\ rec'.next_packet_expected = rec.next_packet_expected + 1
                /\ rec.pc = "classify"
                /\ rec.packet_num = rec.next_packet_expected
        /\ rec'.written # rec.written
             => /\ Len(rec'.written) = Len(rec.written) + 1
                /\ SubSeq(rec'.written, 1, Len(rec.written)) = rec.written
                /\ rec'.written[Len(rec'.written)].seq = rec.next_packet_expected
      ]_vars

\* a packet from the future has been handled
C4_Witness ==
    /\ rec.pc \in {"send_ack", "receive_packet"}
    /\ rec.armed
    /\ rec.packet_num > rec.next_packet_expected

\* the two ways out of await_ack, told apart by ack_gap
C5_AckStep ==
    /\ sender.pc = "await_ack"
    /\ sender'.pc = "read_packet"
    /\ sender'.ack_gap = sender.ack_gap + 1
C5_TimeoutStep ==
    /\ sender.pc = "await_ack"
    /\ sender'.pc # "await_ack"
    /\ ~C5_AckStep

\* C5: timeout_counter counts consecutive timeouts and the sender gives up
\* exactly on the 5th: a timeout adds one and gives up if and only if that
\* makes 5, nothing else ends the session as ReceiverNotResponding, the
\* counter never passes 5, and an acknowledgment received sets it to 0.
C5_AbortOnFifthTimeout ==
    [][ /\ sender'.timeout_counter <= 5
        /\ C5_AckStep => sender'.timeout_counter = 0
        /\ C5_TimeoutStep
             => /\ sender'.timeout_counter = sender.timeout_counter + 1
                /\ sender'.pc = "aborted" <=> sender'.timeout_counter = 5
        /\ ( sender'.pc = "aborted" /\ sender.pc # "aborted" ) => C5_TimeoutStep
        /\ sender'.timeout_counter # sender.timeout_counter
             => sender.pc = "await_ack"
      ]_vars

\* the sender gave up after an acknowledgment had reset the counter
C5_Witness ==
    /\ sender.pc = "aborted"
    /\ sender.timeout_counter = 5
    /\ sender.last_acked_packet_num > 0

\* C6: ack_gap starts at 0, grows by exactly 1 with each acknowledgment
\* received, is 0 after each timeout, and no other step changes it.
C6_AckGap ==
    /\ sender.ack_gap = 0
    /\ [][ /\ AckReceived => sender'.ack_gap = sender.ack_gap + 1
           /\ AckTimedOut => sender'.ack_gap = 0
           /\ ~(AckReceived \/ AckTimedOut) => sender'.ack_gap = sender.ack_gap
         ]_vars

\* a timeout has reset a gap that acknowledgments had raised
C6_Witness ==
    /\ sender.timeout_counter = 1
    /\ sender.ack_gap = 0
    /\ sender.last_acked_packet_num > 0

\* C7: after the loop body has handled a packet, the receiver is at send_ack
\* exactly when the packet's flag is set, whatever the packet's class.
C7_AckIffRequested ==
    [][ ( rec.pc = "classify" /\ rec'.pc # "classify" )
          => ( rec'.pc = "send_ack" <=> rec.is_acked ) ]_vars

TwoChunks == 2 * PACKET_SIZE

\* C8 as stated: of a 4096-byte file, packet 0 asks for an acknowledgment,
\* packet 1 does not, and the sender ends with ack_gap = 1.
C8_AsStated ==
    file_size = TwoChunks =>
        /\ \A p \in InFlight(dataQ) : p.is_acked <=> p.packet_num = 0
        /\ sender.pc \in SenderTerminal
             => sender.pc = "done" /\ sender.ack_gap = 1

\* C8, amended: of a 4096-byte file on the fault-free channel, packet 0 and
\* packet 1 both ask for an acknowledgment (1 - 0 = 1 = ack_gap), ack_gap is
\* 1 between the two, and the sender ends by file exhaustion with
\* ack_gap = 2 and last_acked_packet_num = 1.
C8_TwoChunkScenario ==
    file_size = TwoChunks =>
        /\ \A p \in InFlight(dataQ) : p.is_acked
        /\ ( sender.packet_index = 1 /\ sender.pc # "await_ack" )
             => sender.ack_gap = 1 /\ sender.last_acked_packet_num = 0
        /\ sender.pc \in SenderTerminal
             => /\ sender.pc = "done"
                /\ sender.packet_index = 2
                /\ sender.ack_gap = 2
                /\ sender.last_acked_packet_num = 1

C8_Witness ==
    /\ file_size = TwoChunks
    /\ sender.pc = "done"
    /\ rec.next_packet_expected = 2

\* the first n with (n+1)*2048 > size
FinalSeq(size) ==
    CHOOSE n \in 0..(MaxChunks + 1) :
        /\ (n + 1) * PACKET_SIZE > size
        /\ \A m \in 0..(n - 1) : ~((m + 1) * PACKET_SIZE > size)

\* C9: handed the packets in order, the receiver writes 2048 bytes for each
\* packet before the final one and file_size - k*2048 for the final one, k,
\* and ends there with file_size bytes written.
C9_ValidLength ==
    file_size >= 1 =>
        LET k == FinalSeq(file_size)
            w == rec.written
        IN  /\ \A i \in DOMAIN w :
                 /\ w[i].seq = i - 1
                 /\ i - 1 <= k
                 /\ i - 1 < k => w[i].n + w[i].pad = PACKET_SIZE
                 /\ i - 1 = k => w[i].n + w[i].pad = file_size - k * PACKET_SIZE
            /\ rec.pc = "done" <=> Len(w) = k + 1
            /\ rec.pc = "done" => BytesWritten(w) = file_size

\* 5000 bytes: packets 0, 1, 2 written as 2048 + 2048 + 904
C9_Witness ==
    /\ file_size = 5000
    /\ rec.pc = "done"
    /\ Len(rec.written) = 3
    /\ rec.written[3].n + rec.written[3].pad = 904
    /\ BytesWritten(rec.written) = 5000

\* C10: a datagram of the wrong length ends neither session.
C10_FormatErrorSurvived ==
    /\ sender.pc # "crashed"
    /\ rec.pc # "crashed"

\* C11: a session that has left its main loop, in whichever way, has closed
\* its socket and its file.
C11_Released ==
    /\ sender.pc \in SenderTerminal
         => ~sender.socket_open /\ ~sender.file_open
    /\ rec.pc \in ReceiverTerminal
         => ~rec.socket_open /\ ~rec.file_open

\* the receiver left by an uncaught error, the sender by ReceiverNotResponding
C11_Witness ==
    /\ rec.pc = "crashed"
    /\ sender.pc = "aborted"
    /\ ~sender.file_open
    /\ ~rec.file_open

\* the packet go-back-N resumes with: number last_acked_packet_num, the file's
\* bytes from that offset, acknowledgment requested
ResumedPacket(s) ==
    [len |-> DATA_PACKET_LEN,
     connection_id |-> s.connection_id,
     file_size |-> s.file_size,
     packet_num |-> s.last_acked_packet_num,
     is_acked |-> TRUE,
     payload |-> [off |-> s.last_acked_packet_num * PACKET_SIZE,
                  len |-> Min(PACKET_SIZE,
                              s.file_size
                                - s.last_acked_packet_num * PACKET_SIZE)]]

\* a timeout that is not the fifth in a row
C12_RecoveryStep ==
    /\ AckTimedOut
    /\ sender'.pc # "aborted"

\* the fifth timeout in a row
C12_AbortStep ==
    /\ AckTimedOut
    /\ sender'.pc = "aborted"

\* the sender acts for the first time since a recovery
C12_ResumeStep ==
    /\ sender.pc \in {"read_packet", "set_is_acked", "send_packet"}
    /\ sender.timeout_counter >= 1
    /\ sender' # sender

SenderNext ==
    \/ read_packet
    \/ set_is_acked
    \/ send_packet
    \/ \E i \in 1..Len(ackQ) : await_ack(i, TRUE)
    \/ packet_loss_recovery

\* any channel, a sender that keeps taking steps
SpecSenderRuns == Init /\ [][Next]_vars /\ WF_vars(SenderNext)

\* C13 as stated: whatever the channel does, a sender that keeps taking steps
\* reaches a terminal state.
C13_Terminates == <>(sender.pc \in SenderTerminal)

\* an acknowledgment is accepted: the only step that counts ack_gap up
C13_AckAccepted ==
    /\ sender.pc = "await_ack"
    /\ sender'.pc = "read_packet"
    /\ sender'.ack_gap = sender.ack_gap + 1

\* reads that still return data from file position pos
ChunksLeft(pos, size) == (size - pos + PACKET_SIZE - 1) \div PACKET_SIZE

\* where the sender is within one pass of its loop, later is smaller
StepsLeftInPass(pc) ==
    CASE pc = "set_is_acked" -> 3
      [] pc = "send_packet" -> 2
      [] pc = "read_packet" -> 1
      [] OTHER -> 0

\* more than a whole file costs: 4 steps for each chunk
PassWeight == 4 * MaxChunks + 4

\* a bound on the steps a sender has left if no acknowledgment comes:
\* timeouts left before the limit, then chunks left, then steps in the pass
StepsLeft(s) ==
    IF s.pc \in SenderTerminal
    THEN 0
    ELSE (TIMEOUT_LIMIT - s.timeout_counter) * PassWeight
           + 4 * ChunksLeft(s.pos, s.file_size)
           + StepsLeftInPass(s.pc)

\* C13: retransmission is bounded between acknowledgments: every step of the
\* sender other than accepting an acknowledgment brings it closer to a
\* terminal state (fewer timeouts left before the limit of 5, or the same and
\* less of the file left to pass over), so a sender that keeps taking steps
\* and accepts no further acknowledgment terminates; every accepted
\* acknowledgment starts the count of timeouts again.
C13_BoundedBetweenAcks ==
    [][ (sender' # sender /\ ~C13_AckAccepted)
          => /\ StepsLeft(sender') < StepsLeft(sender)
             /\ StepsLeft(sender') >= 0 ]_vars

\* the sender gave up although the receiver had taken the first chunk
C13_Witness ==
    /\ sender.pc = "aborted"
    /\ sender.timeout_counter = TIMEOUT_LIMIT
    /\ rec.next_packet_expected = 1
    /\ rec.pc = "receive_packet"

\* C14: whatever acknowledgment is delivered to the waiting sender is
\* accepted, its connection id and packet number unexamined: ack_gap grows by
\* 1, the timeout count becomes 0 and last_acked_packet_num becomes the number
\* received, lower than before or not; the packet number and the file
\* position stay as they are.
C14_AnyAckAccepted ==
    [][ ( /\ sender.pc = "await_ack"
          /\ ackQ # <<>>
          /\ sender' # sender )
          => /\ Head(ackQ).len = ACK_PACKET_LEN
             /\ sender' = [sender EXCEPT
                    !.ack_gap = sender.ack_gap + 1,
                    !.timeout_counter = 0,
                    !.last_acked_packet_num = Head(ackQ).packet_num,
                    !.pc = "read_packet"]
             /\ ackQ' = Tail(ackQ) ]_vars

\* the sender has just accepted an acknowledgment that is not the one of the
\* packet it asked about, and a second one of another connection travels
C14_Witness ==
    /\ sender.pc = "read_packet"
    /\ sender.timeout_counter = 0
    /\ sender.ack_gap >= 2
    /\ sender.last_acked_packet_num + 1 < sender.packet_index
    /\ ackQ # <<>>
    /\ Head(ackQ).connection_id # sender.connection_id

\* C15: whatever the channel loses, duplicates or reorders, what the receiver
\* has written is the chunks 0 .. next_packet_expected - 1 of the sender's
\* file in order: a prefix of the file, Min(next_packet_expected * 2048,
\* file_size) bytes long.
C15_PrefixWritten ==
    /\ Len(rec.written) = rec.next_packet_expected
    /\ \A i \in DOMAIN rec.written :
         /\ rec.written[i].seq = i - 1
         /\ rec.written[i].off = (i - 1) * PACKET_SIZE
         /\ rec.written[i].n = Min(PACKET_SIZE, file_size - (i - 1) * PACKET_SIZE)
         /\ rec.written[i].n > 0
         /\ rec.written[i].pad = 0
    /\ BytesWritten(rec.written)
         = Min(rec.next_packet_expected * PACKET_SIZE, file_size)

\* both chunks of a two-chunk file are written, the last one short, while
\* the sender is in a recovery after a timeout
C15_Witness ==
    /\ Len(rec.written) = 2
    /\ BytesWritten(rec.written) = file_size
    /\ file_size < 2 * PACKET_SIZE
    /\ rec.pc = "done"
    /\ rec.packet_num = 1
    /\ sender.timeout_counter >= 1

\* C16 as stated: an acknowledgment about to be sent carries the number of a
\* chunk already written, like every chunk before it; so does the number the
\* sender took from an acknowledgment.
C16_AckConfirmsDelivery ==
    /\ rec.pc = "send_ack" => rec.next_packet_expected > rec.packet_num
    /\ sender.ack_gap >= 1
         => rec.next_packet_expected > sender.last_acked_packet_num

\* C16: an acknowledgment about to be sent for a packet that was not ahead of
\* the receiver (its number at most next_packet_expected) carries the number
\* of a chunk already written, like every chunk before it. A packet ahead of
\* the receiver is acknowledged with its own number as well, nothing of it
\* written.
C16_AckOfHandledPacket ==
    ( rec.pc = "send_ack" /\ rec.packet_num <= rec.next_packet_expected )
      => /\ rec.next_packet_expected > rec.packet_num
         /\ Len(rec.written) > rec.packet_num
         /\ \A k \in 0..rec.packet_num :
              /\ rec.written[k + 1].seq = k
              /\ rec.written[k + 1].off = k * PACKET_SIZE
              /\ rec.written[k + 1].pad = 0

\* packet 1 has just been written and is about to be acknowledged
C16_Witness ==
    /\ rec.pc = "send_ack"
    /\ rec.packet_num = 1
    /\ rec.next_packet_expected = 2
    /\ Len(rec.written) = 2

\* a packet is handed to the channel
C17_PacketSent ==
    /\ sender.pc = "send_packet"
    /\ sender'.packet_index = sender.packet_index + 1

\* C17: every data packet handed to the channel with number n carries the
\* file's bytes from offset n * 2048, also after recoveries and after failed
\* sends, and each packet sent carries the number after the one before it.
C17_Aligned ==
    [][ /\ \A p \in InFlight(dataQ') :
             p.len = DATA_PACKET_LEN
               => p.payload.off = p.packet_num * PACKET_SIZE
        /\ C17_PacketSent
             => /\ build_packet(sender).packet_num = sender.packet_index
                /\ sender.data.off = sender.packet_index * PACKET_SIZE ]_vars

\* packets sent since the last acknowledged one
SentSinceAck(s) == s.packet_index - s.last_acked_packet_num

\* C18 as stated: where set_is_acked takes its decision, the packets sent
\* since the last acknowledged one are at most ack_gap, whatever
\* acknowledgments were duplicated, reordered or delayed.
C18_CanFireAgain ==
    sender.pc = "set_is_acked" => SentSinceAck(sender) <= sender.ack_gap

\* the bound where the decision is taken, and one more while the packet
\* that asked for an acknowledgment is waited for
C18_Bound(s) ==
    /\ s.pc \in {"read_packet", "set_is_acked", "send_packet"}
         => SentSinceAck(s) <= s.ack_gap
    /\ s.pc = "await_ack" => SentSinceAck(s) <= s.ack_gap + 1

\* an acknowledgment is accepted whose number is below that of the packet
\* that asked for it
C18_StaleAckAccepted ==
    /\ sender.pc = "await_ack"
    /\ sender'.pc = "read_packet"
    /\ sender'.timeout_counter = 0
    /\ sender'.last_acked_packet_num < sender.packet_index - 1

\* C18: where set_is_acked takes its decision, the packets sent since the
\* last acknowledged one are at most ack_gap as long as no acknowledgment was
\* accepted whose number is below that of the packet that asked for it: the
\* bound holds at the start and every step keeps it except accepting such an
\* acknowledgment.
C18_BoundKeptUnlessStaleAck ==
    /\ C18_Bound(sender)
    /\ [][ (C18_Bound(sender) /\ ~C18_StaleAckAccepted)
             => C18_Bound(sender') ]_vars

\* the decision is taken with two acknowledgments accepted since the last
\* timeout and one packet sent since the last acknowledged one
C18_Witness ==
    /\ sender.pc = "set_is_acked"
    /\ sender.ack_gap = 2
    /\ SentSinceAck(sender) = 1
    /\ sender.packet_index = 2

====
